---- MODULE Spec2Model ----
(***************************************************************************)
(* Model of lolshooter2-main/merge.js: the split-file merger.              *)
(*                                                                         *)
(* Strings are sequences of one-character strings, so that split, endsWith,*)
(* includes, encodeURIComponent and decodeURIComponent are computed on the *)
(* characters as the JavaScript built-ins compute them.                    *)
(* A byte buffer is a record [id, bytes]: id is the identity of the        *)
(* allocation (one Uint8Array per mergeSplitFiles call), bytes its content.*)
(*                                                                         *)
(* One action is one event-loop task together with the promise reactions   *)
(* (microtasks) it triggers: the script's load, the arrival of one part    *)
(* response, the completion of one body read, a fetch call, an XHR open or *)
(* send, and one timer callback of an interceptor.                         *)
(***************************************************************************)
EXTENDS Integers, Sequences, FiniteSets, TLC

(* ------------------------------ bounds --------------------------------- *)
MaxRequests == 1

(* ------------------------- program constants --------------------------- *)
maxWait == 30000
PollInterval == 50

(* ------------------------------ strings -------------------------------- *)
\* The printable ASCII characters, code 32 to 126 ("BQ" stands for the
\* backquote, code 96, which a TLA+ string cannot hold).
Printable ==
  << " ", "!", "\"", "#", "$", "%", "&", "'", "(", ")", "*", "+", ",", "-",
     ".", "/", "0", "1", "2", "3", "4", "5", "6", "7", "8", "9", ":", ";",
     "<", "=", ">", "?", "@", "A", "B", "C", "D", "E", "F", "G", "H", "I",
     "J", "K", "L", "M", "N", "O", "P", "Q", "R", "S", "T", "U", "V", "W",
     "X", "Y", "Z", "[", "\\", "]", "^", "_", "BQ", "a", "b", "c", "d", "e",
     "f", "g", "h", "i", "j", "k", "l", "m", "n", "o", "p", "q", "r", "s",
     "t", "u", "v", "w", "x", "y", "z", "{", "|", "}", "~" >>

HexDigits ==
  << "0", "1", "2", "3", "4", "5", "6", "7", "8", "9",
     "A", "B", "C", "D", "E", "F" >>

LowerHex == << "a", "b", "c", "d", "e", "f" >>

Unreserved ==
  { Printable[k] : k \in 34..59 } \cup { Printable[k] : k \in 66..91 }
    \cup { Printable[k] : k \in 17..26 }
    \cup { "-", "_", ".", "!", "~", "*", "'", "(", ")" }

CharCode(c) == 31 + (CHOOSE k \in 1..Len(Printable) : Printable[k] = c)

AsciiChar(code) == IF code \in 32..126 THEN Printable[code - 31] ELSE "^"

IsHex(c) ==
  \/ \E k \in 1..16 : HexDigits[k] = c
  \/ \E k \in 1..6 : LowerHex[k] = c

HexVal(c) ==
  IF \E k \in 1..16 : HexDigits[k] = c
    THEN (CHOOSE k \in 1..16 : HexDigits[k] = c) - 1
    ELSE 9 + (CHOOSE k \in 1..6 : LowerHex[k] = c)

EndsWith(s, t) ==
  /\ Len(t) <= Len(s)
  /\ SubSeq(s, Len(s) - Len(t) + 1, Len(s)) = t

Includes(s, t) ==
  \E i \in 1..(Len(s) + 1) :
    /\ i + Len(t) - 1 <= Len(s)
    /\ SubSeq(s, i, i + Len(t) - 1) = t

\* s.split(c)[0]: the text before the first occurrence of c
SplitHead(s, c) ==
  IF \E i \in 1..Len(s) : s[i] = c
    THEN SubSeq(s, 1, (CHOOSE i \in 1..Len(s) :
                         /\ s[i] = c
                         /\ \A j \in 1..(i - 1) : s[j] # c) - 1)
    ELSE s

\* s.split(c).pop(): the text after the last occurrence of c
SplitPop(s, c) ==
  IF \E i \in 1..Len(s) : s[i] = c
    THEN SubSeq(s, (CHOOSE i \in 1..Len(s) :
                      /\ s[i] = c
                      /\ \A j \in (i + 1)..Len(s) : s[j] # c) + 1, Len(s))
    ELSE s

\* decodeURIComponent raises URIError on a % that is not followed by two hex
\* digits, and on an escaped byte >= 0x80 that is not part of a well-formed
\* UTF-8 sequence.  No URL of the model carries a multi-byte sequence, so
\* every escaped byte >= 0x80 raises.
RECURSIVE DecodeOk(_, _)
DecodeOk(s, i) ==
  IF i > Len(s) THEN TRUE
  ELSE IF s[i] # "%" THEN DecodeOk(s, i + 1)
  ELSE /\ i + 2 <= Len(s)
       /\ IsHex(s[i + 1])
       /\ IsHex(s[i + 2])
       /\ 16 * HexVal(s[i + 1]) + HexVal(s[i + 2]) < 128
       /\ DecodeOk(s, i + 3)

RECURSIVE DecodeFrom(_, _)
DecodeFrom(s, i) ==
  IF i > Len(s) THEN << >>
  ELSE IF s[i] # "%" THEN << s[i] >> \o DecodeFrom(s, i + 1)
  ELSE << AsciiChar(16 * HexVal(s[i + 1]) + HexVal(s[i + 2])) >>
         \o DecodeFrom(s, i + 3)

RECURSIVE encodeURIComponent(_)
encodeURIComponent(s) ==
  IF s = << >> THEN << >>
  ELSE (IF Head(s) \in Unreserved
          THEN << Head(s) >>
          ELSE << "%", HexDigits[(CharCode(Head(s)) \div 16) + 1],
                       HexDigits[(CharCode(Head(s)) % 16) + 1] >>)
       \o encodeURIComponent(Tail(s))

(* ---------------------------- URL matcher ------------------------------ *)
normalizeUrl(url) ==
  LET head == SplitHead(url, "?")
  IN IF DecodeOk(head, 1) THEN DecodeFrom(head, 1) ELSE url

\* Mutant of urlsMatch: the suffix test is made in one direction only.
urlsMatch_OneWay(url1, url2) ==
  LET norm1 == normalizeUrl(url1)
      norm2 == normalizeUrl(url2)
  IN \/ norm1 = norm2
     \/ EndsWith(norm1, norm2)
     \/ SplitPop(norm1, "/") = SplitPop(norm2, "/")

urlsMatch(url1, url2) ==
  LET norm1 == normalizeUrl(url1)
      norm2 == normalizeUrl(url2)
  IN \/ norm1 = norm2
     \/ EndsWith(norm1, norm2)
     \/ EndsWith(norm2, norm1)
     \/ SplitPop(norm1, "/") = SplitPop(norm2, "/")

(* --------------------------- configuration ----------------------------- *)
\* window.fileMergerConfig as the host page supplies it, merged over
\* defaultConfig.  CfgShared has two files with the same last path segment,
\* CfgPlain has no base path and a .wasm file, CfgEmpty has no file.
CfgShared ==
  [ files |-> << [name |-> << "a", "/", "m" >>, parts |-> 2],
                 [name |-> << "b", "/", "m" >>, parts |-> 1] >>,
    basePath |-> << "s", "/" >> ]

CfgPlain ==
  [ files |-> << [name |-> << "w", ".", "w", "a", "s", "m" >>, parts |-> 1],
                 [name |-> << "d" >>, parts |-> 2] >>,
    basePath |-> << >> ]

CfgEmpty == [ files |-> << >>, basePath |-> << >> ]

Configs == { CfgShared, CfgPlain, CfgEmpty }

\* The URLs the page requests.
Urls ==
  { << "s", "/", "b", "/", "m" >>,
    << "s", "/", "a", "/", "m", ".", "p", "a", "r", "t", "1" >>,
    << "w", "%", "2", "5", "2", "E", "w", "a", "s", "m" >>,
    << "x" >>,
    << "w", ".", "w", "a", "s", "m", "?", "v" >> }

\* The status the server answers with when the request of part i does not
\* succeed: not found for the odd parts, a server error for the even ones.
BadStatus(i) == IF i % 2 = 1 THEN 404 ELSE 500

\* The body of an unsuccessful response (an error page).
ErrorBytes(status) == << status % 256 >>

VARIABLES config, loaded, mergeStatus, mergedFiles, partFetches, responses,
          buffers, bodyOrder, task, mergeResult, mergePromises, mergeOrder,
          orch, events, requests, probe

vars == << config, loaded, mergeStatus, mergedFiles, partFetches, responses,
           buffers, bodyOrder, task, mergeResult, mergePromises, mergeOrder,
           orch, events, requests, probe >>

\* what only the merge engine and the orchestrator write
mergeVars == << mergeStatus, mergedFiles, partFetches, responses, buffers,
                bodyOrder, task, mergeResult, mergePromises, mergeOrder,
                orch, events >>

FileIdx == 1..Len(config.files)

\* The bytes of part i of the k-th configured file, as the server holds
\* them: every byte of every part of a configuration differs, the parts have
\* different lengths, and the only part of the first file of CfgPlain is
\* empty.
PartLen(k, i) ==
  IF config.basePath = << >> THEN (k + i + 1) % 3 ELSE (k * i) % 3

PartBytes(k, i) == [ j \in 1..PartLen(k, i) |-> (16 * k + 4 * i + j) % 256 ]

Parts == { p \in FileIdx \X (1..9) : p[2] <= config.files[p[1]].parts }

FileNames == { config.files[k].name : k \in FileIdx }

\* const fullPath = config.basePath ? `${config.basePath}${file.name}` : file.name
FullPath(name) ==
  IF config.basePath # << >> THEN config.basePath \o name ELSE name

RECURSIVE DecimalString(_)
DecimalString(n) ==
  IF n < 10 THEN << HexDigits[n + 1] >>
  ELSE DecimalString(n \div 10) \o << HexDigits[(n % 10) + 1] >>

\* `${filePath}.part${i}`
PartPath(filePath, i) ==
  filePath \o << ".", "p", "a", "r", "t" >> \o DecimalString(i)

(* ----------------------------- buffer store ---------------------------- *)
\* window.mergedFiles is a sequence of [key, value] in insertion order, the
\* order Object.entries enumerates string keys in.
NoBuffer == [id |-> 0, bytes |-> << >>]

HasKey(store, key) == \E n \in 1..Len(store) : store[n].key = key

Lookup(store, key) ==
  IF HasKey(store, key)
    THEN store[CHOOSE n \in 1..Len(store) : store[n].key = key].value
    ELSE NoBuffer

\* store[key] = value: an existing key keeps its place
Put(store, key, value) ==
  IF HasKey(store, key)
    THEN [ n \in 1..Len(store) |->
             IF store[n].key = key THEN [key |-> key, value |-> value]
                                   ELSE store[n] ]
    ELSE Append(store, [key |-> key, value |-> value])

getMergedFile(store, filename) ==
  IF Lookup(store, filename) # NoBuffer
    THEN Lookup(store, filename)
    ELSE IF \E n \in 1..Len(store) : urlsMatch(store[n].key, filename)
      THEN store[CHOOSE n \in 1..Len(store) :
                   /\ urlsMatch(store[n].key, filename)
                   /\ \A m \in 1..(n - 1) :
                        ~ urlsMatch(store[m].key, filename)].value
      ELSE NoBuffer

(* ----------------------------- merge engine ---------------------------- *)
\* A response of window.originalFetch for a part: still pending, rejected
\* (network error), or a response with its ok flag, status and body.
PendingResponse == [st |-> "pending", ok |-> FALSE, status |-> 0, body |-> << >>]
RejectedFetch   == [st |-> "rejected", ok |-> FALSE, status |-> 0, body |-> << >>]
OkResponse(k, i) ==
  [st |-> "response", ok |-> TRUE, status |-> 200, body |-> PartBytes(k, i)]
BadResponse(status) ==
  [st |-> "response", ok |-> FALSE, status |-> status, body |-> ErrorBytes(status)]

\* What the server can answer for part i of file k.
Answers(k, i) ==
  { OkResponse(k, i), RejectedFetch, BadResponse(BadStatus(i)) }

\* A body read (response.arrayBuffer()): not started, pending, read, failed.
NoRead      == [st |-> "none", bytes |-> << >>]
PendingRead == [st |-> "pending", bytes |-> << >>]
FailedRead  == [st |-> "error", bytes |-> << >>]
DoneRead(bytes) == [st |-> "read", bytes |-> bytes]

\* The outcome of mergeSplitFiles: nothing yet, the merged buffer, or the
\* error it throws.
NoResult == [kind |-> "none", buffer |-> NoBuffer, what |-> "", part |-> << >>, status |-> 0]
BufferResult(b) == [kind |-> "buffer", buffer |-> b, what |-> "", part |-> << >>, status |-> 0]
\* new Error(`Failed to load ${parts[i]}: ${responses[i].status}`)
LoadError(part, status) ==
  [kind |-> "error", buffer |-> NoBuffer, what |-> "Failed to load", part |-> part, status |-> status]
\* the rejection of a part's fetch, or of its body read, passed on as it is
NetworkError == [kind |-> "error", buffer |-> NoBuffer, what |-> "fetch rejected", part |-> << >>, status |-> 0]
ReadError == [kind |-> "error", buffer |-> NoBuffer, what |-> "body read rejected", part |-> << >>, status |-> 0]

\* Mutant of PartPaths: every path gets the index of the first part.
PartPaths_SameIndex(filePath, numParts) ==
  [ i \in 1..numParts |-> PartPath(filePath, 1) ]

\* const parts = []; for (i = 1..numParts) parts.push(`${filePath}.part${i}`)
PartPaths(filePath, numParts) == [ i \in 1..numParts |-> PartPath(filePath, i) ]

\* Mutant of FirstNotOk: the loop goes on after a part that is not ok, and
\* the error names the last one.
FirstNotOk_Last(k, resp) ==
  CHOOSE i \in 1..config.files[k].parts :
    /\ ~ resp[<< k, i >>].ok
    /\ \A j \in (i + 1)..config.files[k].parts : resp[<< k, j >>].ok

\* for (i ...) if (!responses[i].ok) throw ...: the first part that is not ok
FirstNotOk(k, resp) ==
  CHOOSE i \in 1..config.files[k].parts :
    /\ ~ resp[<< k, i >>].ok
    /\ \A j \in 1..(i - 1) : resp[<< k, j >>].ok

RECURSIVE TotalSize(_)
TotalSize(bufs) ==
  IF bufs = << >> THEN 0 ELSE Len(Head(bufs)) + TotalSize(Tail(bufs))

\* for (const buffer of buffers) { mergedArray.set(buffer, offset); offset += ... }
RECURSIVE CopyBuffers(_, _, _, _)
CopyBuffers(mergedArray, bufs, n, offset) ==
  IF n > Len(bufs) THEN mergedArray
  ELSE CopyBuffers(
         [ j \in 1..Len(mergedArray) |->
             IF j > offset /\ j <= offset + Len(bufs[n])
               THEN bufs[n][j - offset] ELSE mergedArray[j] ],
         bufs, n + 1, offset + Len(bufs[n]))

\* Promise.all keeps the results in the order of its input, the part index
BufferArray(k, bufs) ==
  [ i \in 1..config.files[k].parts |-> bufs[<< k, i >>].bytes ]

\* Mutant of MergedBuffer: the part buffers are joined in the order their
\* body reads completed.
MergedBuffer_CompletionOrder(k, bufs, order) ==
  LET arr == [ n \in 1..Len(order) |-> bufs[<< k, order[n] >>].bytes ]
  IN [ id |-> k,
       bytes |-> CopyBuffers([ j \in 1..TotalSize(arr) |-> 0 ], arr, 1, 0) ]

\* the merged buffer of file k: a fresh Uint8Array of totalSize zero bytes,
\* filled from the part buffers at their cumulative offsets
MergedBuffer(k, bufs, order) ==
  LET arr == BufferArray(k, bufs)
  IN [ id |-> k,
       bytes |-> CopyBuffers([ j \in 1..TotalSize(arr) |-> 0 ], arr, 1, 0) ]

(* ----------------------------- orchestrator ---------------------------- *)
PendingPromise == [state |-> "pending", name |-> << >>, size |-> 0]

\* Mutant of Publish: the keys are stored before the buffer has a value.
Publish_NoValue(store, name, buffer) ==
  LET fullPath == FullPath(name)
      basename == SplitPop(name, "/")
      s1 == Put(store, name, NoBuffer)
      s2 == Put(s1, fullPath, NoBuffer)
      s3 == Put(s2, basename, NoBuffer)
      s4 == Put(s3, encodeURIComponent(name), NoBuffer)
  IN Put(s4, encodeURIComponent(fullPath), NoBuffer)

\* the five keys the then callback stores the buffer under
Publish(store, name, buffer) ==
  LET fullPath == FullPath(name)
      basename == SplitPop(name, "/")
      s1 == Put(store, name, buffer)
      s2 == Put(s1, fullPath, buffer)
      s3 == Put(s2, basename, buffer)
      s4 == Put(s3, encodeURIComponent(name), buffer)
  IN Put(s4, encodeURIComponent(fullPath), buffer)

\* Mutant of EventDetail: the results are listed in the order the merges
\* completed.
EventDetail_CompletionOrder(promises, order) ==
  [ n \in 1..Len(order) |->
      [name |-> promises[order[n]].name, size |-> promises[order[n]].size] ]

\* detail of the filesMerged event: the results of Promise.all(mergePromises)
EventDetail(promises, order) ==
  [ k \in 1..Len(promises) |-> [name |-> promises[k].name, size |-> promises[k].size] ]

\* Mutant of MergeFulfilled: the orchestrator waits for every merge promise
\* to settle, not to fulfil, and announces the files that were merged.
MergeFulfilled_AllSettled(k, buffer) ==
  LET name == config.files[k].name
      promises == [mergePromises EXCEPT ![k] =
                     [state |-> "fulfilled", name |-> name, size |-> Len(buffer.bytes)]]
      order == Append(mergeOrder, k)
  IN /\ mergeResult' = [mergeResult EXCEPT ![k] = BufferResult(buffer)]
     /\ mergedFiles' = Publish(mergedFiles, name, buffer)
     /\ mergeStatus' = [mergeStatus EXCEPT ![name] = "ready"]
     /\ mergePromises' = promises
     /\ mergeOrder' = order
     /\ IF \A j \in FileIdx : promises[j].state # "pending"
          THEN /\ events' = Append(events,
                              SelectSeq(EventDetail(promises, order),
                                        LAMBDA d : d.name # << >>))
               /\ orch' = "dispatched"
          ELSE UNCHANGED << events, orch >>

\* mergeSplitFiles(fullPath, file.parts) has returned a buffer: the then
\* callback publishes it and sets the status; when this was the last merge
\* promise, autoMergeFiles goes on after its await and dispatches the event.
MergeFulfilled(k, buffer) ==
  LET name == config.files[k].name
      promises == [mergePromises EXCEPT ![k] =
                     [state |-> "fulfilled", name |-> name, size |-> Len(buffer.bytes)]]
      order == Append(mergeOrder, k)
  IN /\ mergeResult' = [mergeResult EXCEPT ![k] = BufferResult(buffer)]
     /\ mergedFiles' = Publish(mergedFiles, name, buffer)
     /\ mergeStatus' = [mergeStatus EXCEPT ![name] = "ready"]
     /\ mergePromises' = promises
     /\ mergeOrder' = order
     /\ IF orch = "waiting" /\ \A j \in FileIdx : promises[j].state = "fulfilled"
          THEN /\ events' = Append(events, EventDetail(promises, order))
               /\ orch' = "dispatched"
          ELSE UNCHANGED << events, orch >>

\* Mutant of MergeRejected: the catch callback rethrows without setting the
\* status.
MergeRejected_Silent(k, err) ==
  /\ mergeResult' = [mergeResult EXCEPT ![k] = err]
  /\ mergePromises' = [mergePromises EXCEPT ![k].state = "rejected"]
  /\ orch' = IF orch = "waiting" THEN "failed" ELSE orch
  /\ mergeOrder' = Append(mergeOrder, 0 - k)
  /\ UNCHANGED << mergeStatus, mergedFiles, events >>

\* Mutant of MergeRejected: the failure of one file marks every file failed.
MergeRejected_FailsAll(k, err) ==
  /\ mergeResult' = [mergeResult EXCEPT ![k] = err]
  /\ mergeStatus' = [ n \in FileNames |-> "failed" ]
  /\ mergePromises' = [mergePromises EXCEPT ![k].state = "rejected"]
  /\ orch' = IF orch = "waiting" THEN "failed" ELSE orch
  /\ mergeOrder' = Append(mergeOrder, 0 - k)
  /\ UNCHANGED << mergedFiles, events >>

\* mergeSplitFiles has thrown: the catch callback sets the status and
\* rethrows; the first rejected merge promise rejects Promise.all, and
\* autoMergeFiles logs the failure in its catch.
\* (mergeOrder lists the merges in the order they settled, a fulfilled one
\* as k and a rejected one as -k.)
MergeRejected(k, err) ==
  /\ mergeResult' = [mergeResult EXCEPT ![k] = err]
  /\ mergeStatus' = [mergeStatus EXCEPT ![config.files[k].name] = "failed"]
  /\ mergePromises' = [mergePromises EXCEPT ![k].state = "rejected"]
  /\ orch' = IF orch = "waiting" THEN "failed" ELSE orch
  /\ mergeOrder' = Append(mergeOrder, 0 - k)
  /\ UNCHANGED << mergedFiles, events >>

(* ------------------------------- actions ------------------------------- *)
\* No pair of URLs has been handed to urlsMatch.
NoProbe == [url1 |-> << >>, url2 |-> << >>, asked |-> FALSE,
            forth |-> FALSE, back |-> FALSE]

Init ==
  /\ config \in Configs
  /\ loaded = FALSE
  /\ mergeStatus = [ n \in FileNames |-> "undefined" ]
  /\ mergedFiles = << >>
  /\ partFetches = << >>
  /\ responses = [ p \in Parts |-> PendingResponse ]
  /\ buffers = [ p \in Parts |-> NoRead ]
  /\ bodyOrder = [ k \in FileIdx |-> << >> ]
  /\ task = [ k \in FileIdx |-> "idle" ]
  /\ mergeResult = [ k \in FileIdx |-> NoResult ]
  /\ mergePromises = [ k \in FileIdx |-> PendingPromise ]
  /\ mergeOrder = << >>
  /\ orch = "unloaded"
  /\ events = << >>
  /\ requests = << >>
  /\ probe = NoProbe

RECURSIVE AllPartPaths(_)
AllPartPaths(k) ==
  IF k > Len(config.files) THEN << >>
  ELSE PartPaths(FullPath(config.files[k].name), config.files[k].parts)
         \o AllPartPaths(k + 1)

\* The script runs: autoMergeFiles() marks every file merging and calls
\* mergeSplitFiles for it, which issues all its part fetches, up to the
\* first await of each.
LoadScript ==
  /\ ~ loaded
  /\ loaded' = TRUE
  /\ IF Len(config.files) = 0
       THEN /\ orch' = "idle"
            /\ UNCHANGED << mergeStatus, partFetches, task >>
       ELSE /\ orch' = "waiting"
            /\ mergeStatus' = [ n \in FileNames |-> "merging" ]
            /\ partFetches' = AllPartPaths(1)
            /\ task' = [ k \in FileIdx |-> "responses" ]
  /\ UNCHANGED << config, mergedFiles, responses, buffers, bodyOrder,
                  mergeResult, mergePromises, mergeOrder, events, requests,
                  probe >>

\* The fetch of part i of file k settles with answer r while mergeSplitFiles
\* awaits the responses.  (Once the await was rejected nothing reads the
\* later answers: they change no state of the program.)
PartResponse(k, i, r) ==
  /\ loaded
  /\ task[k] = "responses"
  /\ responses[<< k, i >>].st = "pending"
  /\ responses' = [responses EXCEPT ![<< k, i >>] = r]
  /\ IF r.st = "rejected"
       THEN /\ task' = [task EXCEPT ![k] = "thrown"]
            /\ MergeRejected(k, NetworkError)
            /\ UNCHANGED buffers
     ELSE IF \E j \in 1..config.files[k].parts : responses'[<< k, j >>].st = "pending"
       THEN UNCHANGED << task, buffers, mergeResult, mergedFiles, mergeStatus,
                         mergePromises, mergeOrder, orch, events >>
     ELSE IF \E j \in 1..config.files[k].parts : ~ responses'[<< k, j >>].ok
       THEN /\ task' = [task EXCEPT ![k] = "thrown"]
            /\ MergeRejected(k,
                 LoadError(PartPaths(FullPath(config.files[k].name),
                                     config.files[k].parts)[FirstNotOk(k, responses')],
                           responses'[<< k, FirstNotOk(k, responses') >>].status))
            /\ UNCHANGED buffers
     ELSE /\ task' = [task EXCEPT ![k] = "bodies"]
          /\ buffers' = [ p \in Parts |-> IF p[1] = k THEN PendingRead ELSE buffers[p] ]
          /\ UNCHANGED << mergeResult, mergedFiles, mergeStatus, mergePromises,
                          mergeOrder, orch, events >>
  /\ UNCHANGED << config, loaded, partFetches, bodyOrder, requests, probe >>

\* The body read of part i of file k settles, with the bytes or rejected,
\* while mergeSplitFiles awaits the bodies.
BodyRead(k, i, success) ==
  /\ task[k] = "bodies"
  /\ buffers[<< k, i >>].st = "pending"
  /\ buffers' = [buffers EXCEPT ![<< k, i >>] =
                   IF success THEN DoneRead(responses[<< k, i >>].body) ELSE FailedRead]
  /\ bodyOrder' = [bodyOrder EXCEPT ![k] = IF success THEN Append(@, i) ELSE @]
  /\ IF ~ success
       THEN /\ task' = [task EXCEPT ![k] = "thrown"]
            /\ MergeRejected(k, ReadError)
     ELSE IF \E j \in 1..config.files[k].parts : buffers'[<< k, j >>].st # "read"
       THEN UNCHANGED << task, mergeResult, mergedFiles, mergeStatus,
                         mergePromises, mergeOrder, orch, events >>
     ELSE /\ task' = [task EXCEPT ![k] = "returned"]
          /\ MergeFulfilled(k, MergedBuffer(k, buffers', bodyOrder'[k]))
  /\ UNCHANGED << config, loaded, partFetches, responses, requests, probe >>

(* ----------------------------- interceptors ---------------------------- *)
\* No file name: shouldInterceptFile returns null, and `if (filename)` takes
\* null and the empty string alike.
NoFile == << >>

\* Mutant of FirstReadyMatch: nothing is intercepted once a file has failed.
RECURSIVE FirstReadyMatch_NoneFailed(_, _, _)
FirstReadyMatch_NoneFailed(urlStr, status, k) ==
  IF k > Len(config.files) THEN NoFile
  ELSE LET fileName == config.files[k].name
           fullPath == FullPath(fileName)
       IN IF /\ urlsMatch(urlStr, fileName) \/ urlsMatch(urlStr, fullPath)
             /\ status[fileName] = "ready"
             /\ \A n \in FileNames : status[n] # "failed"
            THEN fileName
            ELSE FirstReadyMatch_NoneFailed(urlStr, status, k + 1)

RECURSIVE FirstReadyMatch(_, _, _)
FirstReadyMatch(urlStr, status, k) ==
  IF k > Len(config.files) THEN NoFile
  ELSE LET fileName == config.files[k].name
           fullPath == FullPath(fileName)
       IN IF /\ urlsMatch(urlStr, fileName) \/ urlsMatch(urlStr, fullPath)
             /\ status[fileName] = "ready"
            THEN fileName
            ELSE FirstReadyMatch(urlStr, status, k + 1)

\* Mutant of shouldInterceptFile: a part path is taken for a request of the
\* file it is a part of.
shouldInterceptFile_PartAsFile(url, status) ==
  LET urlStr == normalizeUrl(url)
      part == << ".", "p", "a", "r", "t" >>
      cut == IF Includes(urlStr, part)
               THEN CHOOSE i \in 1..Len(urlStr) :
                      /\ i + 4 <= Len(urlStr)
                      /\ SubSeq(urlStr, i, i + 4) = part
                      /\ \A j \in 1..(i - 1) :
                           j + 4 > Len(urlStr) \/ SubSeq(urlStr, j, j + 4) # part
               ELSE Len(urlStr) + 1
  IN FirstReadyMatch(SubSeq(urlStr, 1, cut - 1), status, 1)

shouldInterceptFile(url, status) ==
  LET urlStr == normalizeUrl(url)
  IN IF Includes(urlStr, << ".", "p", "a", "r", "t" >>)
       THEN NoFile
       ELSE FirstReadyMatch(urlStr, status, 1)

\* What a request of the model carries: the call (kind, url, args, handlers),
\* what the interceptor decided (state, filename, delegated: the calls of
\* the original primitive) and what the caller gets (response, error,
\* readyState, notified).
NoResponse ==
  [status |-> 0, statusText |-> "", contentType |-> "", contentLength |-> << >>,
   responseType |-> "", body |-> NoBuffer]
NoError == [what |-> "", filename |-> NoFile]

CallerArgs == { << "init" >> }
HandlerSets == { { "progress", "load", "readystatechange" }, { "load" } }

\* filename.endsWith('.wasm') ? 'application/wasm' : 'application/octet-stream'
ContentType(filename) ==
  IF EndsWith(filename, << ".", "w", "a", "s", "m" >>)
    THEN "application/wasm" ELSE "application/octet-stream"

\* new Response(buffer, {status: 200, statusText: 'OK', headers: {...}})
FetchResponse(filename, buffer) ==
  [status |-> 200, statusText |-> "OK", contentType |-> ContentType(filename),
   contentLength |-> DecimalString(Len(buffer.bytes)),
   responseType |-> "", body |-> buffer]

\* new Error(`Timeout waiting for merged file: ${filename}`)
TimeoutError(filename) ==
  [what |-> "Timeout waiting for merged file", filename |-> filename]

\* window.fetch = function(url, ...args): intercept, or call the original
Fetch(url, args) ==
  /\ loaded
  /\ Len(requests) < MaxRequests
  /\ LET filename == shouldInterceptFile(url, mergeStatus)
     IN requests' = Append(requests,
          [kind |-> "fetch", url |-> url, args |-> args, handlers |-> {},
           state |-> IF filename # NoFile THEN "polling" ELSE "delegated",
           filename |-> filename, elapsed |-> 0, response |-> NoResponse,
           error |-> NoError, readyState |-> 0, notified |-> << >>,
           delegated |-> IF filename # NoFile THEN << >>
                         ELSE << [fn |-> "fetch", url |-> url, args |-> args] >>])
  /\ UNCHANGED << config, loaded, probe >>
  /\ UNCHANGED mergeVars

\* One run of the setInterval callback of an intercepted fetch.  The timer
\* fires 50 ms after the last run, or later: late says that the ceiling has
\* passed when it runs.
FetchPoll(n, late) ==
  /\ requests[n].kind = "fetch"
  /\ requests[n].state = "polling"
  /\ LET req == requests[n]
         buffer == getMergedFile(mergedFiles, req.filename)
         now == IF late \/ req.elapsed + PollInterval > maxWait
                  THEN maxWait + PollInterval
                  ELSE req.elapsed + PollInterval
     IN requests' = [requests EXCEPT ![n] =
          IF buffer # NoBuffer
            THEN [req EXCEPT !.state = "resolved", !.elapsed = now,
                             !.response = FetchResponse(req.filename, buffer)]
          ELSE IF now > maxWait
            THEN [req EXCEPT !.state = "rejected", !.elapsed = now,
                             !.error = TimeoutError(req.filename)]
          ELSE [req EXCEPT !.elapsed = now]]
  /\ UNCHANGED << config, loaded, probe >>
  /\ UNCHANGED mergeVars

\* new XMLHttpRequest() and xhr.open(method, url): records the URL and calls
\* the original open.  The caller sets its handlers before send.
XhrOpen(url, handlers) ==
  /\ loaded
  /\ Len(requests) < MaxRequests
  /\ requests' = Append(requests,
       [kind |-> "xhr", url |-> url, args |-> << >>, handlers |-> handlers,
        state |-> "opened", filename |-> NoFile, elapsed |-> 0,
        response |-> NoResponse, error |-> NoError, readyState |-> 1,
        notified |-> << >>,
        delegated |-> << [fn |-> "open", url |-> url, args |-> << >>] >>])
  /\ UNCHANGED << config, loaded, probe >>
  /\ UNCHANGED mergeVars

\* waitForMerge(): with a buffer, define the terminal properties on the
\* object and arm the notification timer; without, try again in 50 ms
waitForMerge(req, store) ==
  LET buffer == getMergedFile(store, req.filename)
  IN IF buffer # NoBuffer
       THEN [req EXCEPT !.state = "synthesized",
                        !.response = [status |-> 200, statusText |-> "OK",
                                      contentType |-> "", contentLength |-> << >>,
                                      responseType |-> "arraybuffer",
                                      body |-> buffer],
                        !.readyState = 4]
       ELSE [req EXCEPT !.state = "waiting"]

\* xhr.send(...args): intercept, or call the original send
XhrSend(n, args) ==
  /\ requests[n].kind = "xhr"
  /\ requests[n].state = "opened"
  /\ LET req == requests[n]
         filename == shouldInterceptFile(req.url, mergeStatus)
     IN requests' = [requests EXCEPT ![n] =
          IF filename # NoFile
            THEN waitForMerge([req EXCEPT !.filename = filename, !.args = args],
                              mergedFiles)
            ELSE [req EXCEPT !.state = "delegated", !.args = args,
                    !.delegated = Append(@, [fn |-> "send", url |-> req.url,
                                             args |-> args])]]
  /\ UNCHANGED << config, loaded, probe >>
  /\ UNCHANGED mergeVars

\* Mutant of Notifications: the load handler is called before the progress
\* handler.
Notifications_LoadFirst(req) ==
  LET size == Len(req.response.body.bytes)
      progress == IF "progress" \in req.handlers
                    THEN << [type |-> "progress", event |-> TRUE,
                             loaded |-> size, total |-> size] >>
                    ELSE << >>
      load == IF "load" \in req.handlers
                THEN << [type |-> "load", event |-> TRUE,
                         loaded |-> size, total |-> size] >>
                ELSE << >>
      change == IF "readystatechange" \in req.handlers
                  THEN << [type |-> "readystatechange", event |-> FALSE,
                           loaded |-> 0, total |-> 0] >>
                  ELSE << >>
  IN load \o progress \o change

\* the notifications of the setTimeout(..., 10) callback, for the handlers
\* the object has: progress, load, then the state change
Notifications(req) ==
  LET size == Len(req.response.body.bytes)
      progress == IF "progress" \in req.handlers
                    THEN << [type |-> "progress", event |-> TRUE,
                             loaded |-> size, total |-> size] >>
                    ELSE << >>
      load == IF "load" \in req.handlers
                THEN << [type |-> "load", event |-> TRUE,
                         loaded |-> size, total |-> size] >>
                ELSE << >>
      change == IF "readystatechange" \in req.handlers
                  THEN << [type |-> "readystatechange", event |-> FALSE,
                           loaded |-> 0, total |-> 0] >>
                  ELSE << >>
  IN progress \o load \o change

\* One timer callback of an intercepted XHR: waitForMerge again after 50 ms,
\* or the notifications 10 ms after the terminal state was set.
XhrTimer(n) ==
  /\ requests[n].kind = "xhr"
  /\ requests[n].state \in { "waiting", "synthesized" }
  /\ requests' = [requests EXCEPT ![n] =
       IF requests[n].state = "waiting"
         THEN waitForMerge(requests[n], mergedFiles)
         ELSE [requests[n] EXCEPT !.state = "notified",
                                  !.notified = Notifications(requests[n])]]
  /\ UNCHANGED << config, loaded, probe >>
  /\ UNCHANGED mergeVars

Next ==
  \/ LoadScript
  \/ \E p \in Parts : \E r \in Answers(p[1], p[2]) : PartResponse(p[1], p[2], r)
  \/ \E p \in Parts : \E ok \in BOOLEAN : BodyRead(p[1], p[2], ok)
  \/ \E url \in Urls : \E args \in CallerArgs : Fetch(url, args)
  \/ \E n \in 1..Len(requests) : \E late \in BOOLEAN : FetchPoll(n, late)
  \/ \E url \in Urls : \E h \in HandlerSets : XhrOpen(url, h)
  \/ \E n \in 1..Len(requests) : \E args \in CallerArgs : XhrSend(n, args)
  \/ \E n \in 1..Len(requests) : XhrTimer(n)

Spec == Init /\ [][Next]_vars

\* The merge engine and the orchestrator alone, every part fetch and every
\* body read settling in the end: the interceptors write none of mergeVars.
MaxFiles ==
  CHOOSE n \in 0..9 : /\ \A c \in Configs : Len(c.files) <= n
                      /\ \E c \in Configs : Len(c.files) = n

MergeNext ==
  \/ LoadScript
  \/ \E p \in Parts : \E r \in Answers(p[1], p[2]) : PartResponse(p[1], p[2], r)
  \/ \E p \in Parts : \E ok \in BOOLEAN : BodyRead(p[1], p[2], ok)

MergeFairness ==
  /\ WF_vars(LoadScript)
  /\ \A k \in 1..MaxFiles :
       /\ WF_vars(\E p \in Parts : \E r \in Answers(p[1], p[2]) :
                    p[1] = k /\ PartResponse(p[1], p[2], r))
       /\ WF_vars(\E p \in Parts : \E ok \in BOOLEAN :
                    p[1] = k /\ BodyRead(p[1], p[2], ok))

FairMergeSpec == Init /\ [][MergeNext]_vars /\ MergeFairness

\* The whole program, every armed timer of an XHR firing in the end.
TimerFairness ==
  \A n \in 1..MaxRequests : WF_vars(n <= Len(requests) /\ XhrTimer(n))

FairTimerSpec == Init /\ [][Next]_vars /\ TimerFairness

\* urlsMatch on its own: a pair of URLs is drawn, and the matcher is asked
\* about it in both orders.
MatchUrls ==
  Urls \cup
  { << >>,
    << "m" >>,
    << "a", "/", "m" >>,
    << "s", "/", "a", "/", "m" >>,
    << "w", "a", "s", "m" >>,
    << "w", ".", "w", "a", "s", "m" >>,
    << "a", "%", "2", "F", "m" >>,
    << "%" >>,
    << "m", "?", "%" >> }

MatchInit ==
  /\ config = CfgEmpty
  /\ loaded = FALSE
  /\ mergeStatus = [ n \in FileNames |-> "undefined" ]
  /\ mergedFiles = << >>
  /\ partFetches = << >>
  /\ responses = [ p \in Parts |-> PendingResponse ]
  /\ buffers = [ p \in Parts |-> NoRead ]
  /\ bodyOrder = [ k \in FileIdx |-> << >> ]
  /\ task = [ k \in FileIdx |-> "idle" ]
  /\ mergeResult = [ k \in FileIdx |-> NoResult ]
  /\ mergePromises = [ k \in FileIdx |-> PendingPromise ]
  /\ mergeOrder = << >>
  /\ orch = "unloaded"
  /\ events = << >>
  /\ requests = << >>
  /\ probe \in { [NoProbe EXCEPT !.url1 = a, !.url2 = b] : a, b \in MatchUrls }

AskMatch ==
  /\ ~ probe.asked
  /\ probe' = [probe EXCEPT !.asked = TRUE,
                            !.forth = urlsMatch(probe.url1, probe.url2),
                            !.back = urlsMatch(probe.url2, probe.url1)]
  /\ UNCHANGED << config, loaded, requests >>
  /\ UNCHANGED mergeVars

MatchNext == AskMatch

MatchSpec == MatchInit /\ [][MatchNext]_vars

(* ------------------------------ properties ----------------------------- *)
\* The parts of file k as the server holds them, joined in ascending index.
RECURSIVE JoinParts(_, _)
JoinParts(k, i) ==
  IF i > config.files[k].parts THEN << >>
  ELSE PartBytes(k, i) \o JoinParts(k, i + 1)

RECURSIVE SumPartLens(_, _)
SumPartLens(k, i) ==
  IF i > config.files[k].parts THEN 0
  ELSE Len(PartBytes(k, i)) + SumPartLens(k, i + 1)

FileBuffer(k) == [id |-> k, bytes |-> JoinParts(k, 1)]

NameOf(k) == config.files[k].name

AllRead(k) == \A i \in 1..config.files[k].parts : buffers[<< k, i >>].st = "read"

\* C1: when all part fetches and body reads of a file succeed, in whatever
\* order they complete, mergeSplitFiles returns the parts joined in
\* ascending part index, and the length of the buffer is the sum of the
\* lengths of the parts.
C1_MergeIsOrderedConcat ==
  \A k \in FileIdx :
    /\ AllRead(k) => mergeResult[k].kind = "buffer"
    /\ mergeResult[k].kind = "buffer" =>
         /\ mergeResult[k].buffer.bytes = JoinParts(k, 1)
         /\ Len(mergeResult[k].buffer.bytes) = SumPartLens(k, 1)

\* a two-part file, both parts non-empty, merged after part 2 was read
\* before part 1
C1_Witness ==
  \E k \in FileIdx :
    /\ config.files[k].parts = 2
    /\ PartBytes(k, 1) # << >> /\ PartBytes(k, 2) # << >>
    /\ bodyOrder[k] = << 2, 1 >>
    /\ mergeResult[k].kind = "buffer"

\* the keys the orchestrator stores the buffer of file k under
FileKeys(k) ==
  { NameOf(k), FullPath(NameOf(k)), SplitPop(NameOf(k), "/"),
    encodeURIComponent(NameOf(k)), encodeURIComponent(FullPath(NameOf(k))) }

\* C2: for every configured file, the Buffer Store has no entry under the
\* file's keys while its status is not ready, and otherwise holds under each
\* of them the complete concatenation of that file's own parts.
C2_StoreHoldsOwnBufferOrNothing ==
  \A k \in FileIdx : \A key \in FileKeys(k) :
    IF mergeStatus[NameOf(k)] = "ready"
      THEN Lookup(mergedFiles, key) = FileBuffer(k)
      ELSE ~ HasKey(mergedFiles, key)

Unsuccessful(k) ==
  \E i \in 1..config.files[k].parts :
    responses[<< k, i >>].st = "response" /\ ~ responses[<< k, i >>].ok

AllAnswered(k) ==
  \A i \in 1..config.files[k].parts : responses[<< k, i >>].st # "pending"

Succeeded(k) ==
  /\ \A i \in 1..config.files[k].parts : responses[<< k, i >>].ok
  /\ AllRead(k)

\* C3: when a part of file x has an unsuccessful response, no buffer of x is
\* ever in the Buffer Store and x is never ready; once all parts of x are
\* answered x is failed, and a file y whose parts all succeeded is ready.
C3_FailureIsolation ==
  \A x \in FileIdx : \A y \in FileIdx \ { x } :
    Unsuccessful(x) =>
      /\ \A n \in 1..Len(mergedFiles) : mergedFiles[n].value.id # x
      /\ mergeStatus[NameOf(x)] # "ready"
      /\ AllAnswered(x) => mergeStatus[NameOf(x)] = "failed"
      /\ Succeeded(y) => mergeStatus[NameOf(y)] = "ready"

\* part 2 of x came back unsuccessful after y had become ready
C3_Witness ==
  \E x \in FileIdx : \E y \in FileIdx \ { x } :
    /\ responses[<< x, 1 >>].ok
    /\ config.files[x].parts = 2
    /\ responses[<< x, 2 >>].st = "response" /\ ~ responses[<< x, 2 >>].ok
    /\ Succeeded(y)
    /\ mergeStatus[NameOf(x)] = "failed"
    /\ mergeStatus[NameOf(y)] = "ready"
    /\ orch = "failed"

IsPartPathOf(url, k) ==
  \E i \in 1..config.files[k].parts :
    normalizeUrl(url) = PartPath(FullPath(NameOf(k)), i)

MatchesFile(url, k) ==
  urlsMatch(url, NameOf(k)) \/ urlsMatch(url, FullPath(NameOf(k)))

\* the step is the fetch call, or the send call, of request n
Called(n) ==
  /\ n \in 1..Len(requests')
  /\ \/ n > Len(requests) /\ requests'[n].kind = "fetch"
     \/ n <= Len(requests) /\ requests[n].state = "opened"
                           /\ requests'[n].state # "opened"

Intercepted(req) == req.filename # NoFile

\* C4: a fetch call whose URL is not a part path and matches a configured
\* file whose status is ready is intercepted for that file, and resolves
\* with status 200, that file's merged buffer as body, and the content type
\* of that file's name.
C4_FetchServesMatchedFile ==
  [][ \A n \in 1..Len(requests') :
        /\ \A k \in FileIdx :
             ( /\ Called(n) /\ requests'[n].kind = "fetch"
               /\ ~ \E j \in FileIdx : IsPartPathOf(requests'[n].url, j)
               /\ MatchesFile(requests'[n].url, k)
               /\ mergeStatus[NameOf(k)] = "ready" )
             => /\ requests'[n].state = "polling"
                /\ requests'[n].filename = NameOf(k)
        /\ ( /\ n <= Len(requests)
             /\ requests[n].state = "polling"
             /\ requests'[n].state # "polling" )
           => /\ requests'[n].state = "resolved"
              /\ requests'[n].response.status = 200
              /\ \E k \in FileIdx :
                   /\ NameOf(k) = requests'[n].filename
                   /\ requests'[n].response.body = FileBuffer(k)
                   /\ requests'[n].response.contentType = ContentType(NameOf(k))
    ]_vars

\* C5: once a file is ready, getMergedFile returns that file's merged buffer
\* for each of its filename variants, whatever else has been published.
C5_LookupSameForVariants ==
  \A k \in FileIdx :
    mergeStatus[NameOf(k)] = "ready" =>
      \A v \in FileKeys(k) : getMergedFile(mergedFiles, v) = FileBuffer(k)

\* C6: a fetch or an XHR whose normalized URL is a part path of a configured
\* file is never intercepted: the fetch, and the send, go to the original
\* primitive with the caller's arguments.
C6_PartPathNeverIntercepted ==
  \A n \in 1..Len(requests) : \A k \in FileIdx :
    IsPartPathOf(requests[n].url, k) =>
      /\ ~ Intercepted(requests[n])
      /\ requests[n].response = NoResponse
      /\ requests[n].state \in { "opened", "delegated" }
      /\ requests[n].state = "delegated" =>
           requests[n].delegated[Len(requests[n].delegated)] =
             [fn |-> IF requests[n].kind = "fetch" THEN "fetch" ELSE "send",
              url |-> requests[n].url, args |-> requests[n].args]

\* a part of a ready file was requested and the request went to the
\* original primitive
C6_Witness ==
  \E n \in 1..Len(requests) : \E k \in FileIdx :
    /\ IsPartPathOf(requests[n].url, k)
    /\ mergeStatus[NameOf(k)] = "ready"
    /\ requests[n].state = "delegated"

Unmatched(url) == \A k \in FileIdx : ~ MatchesFile(url, k)

\* C7: a fetch or a send whose URL matches no configured file under
\* urlsMatch goes to the original primitive with the caller's arguments, and
\* the step leaves the Buffer Store and the status map as they are.
C7_UnmatchedIsDelegated ==
  [][ \A n \in 1..Len(requests') :
        (Called(n) /\ Unmatched(requests'[n].url)) =>
          /\ requests'[n].state = "delegated"
          /\ requests'[n].delegated[Len(requests'[n].delegated)] =
               [fn |-> IF requests'[n].kind = "fetch" THEN "fetch" ELSE "send",
                url |-> requests'[n].url, args |-> requests'[n].args]
          /\ UNCHANGED << mergedFiles, mergeStatus >>
    ]_vars

RequestsFile(url, k) ==
  normalizeUrl(url) \in { NameOf(k), FullPath(NameOf(k)) }

\* C8: a fetch of a configured file whose status never becomes ready is not
\* handed to the original primitive: it waits, and is rejected with the
\* timeout error that names the file.
C8_FetchOfUnreadyTimesOut ==
  \A n \in 1..Len(requests) : \A k \in FileIdx :
    ( /\ requests[n].kind = "fetch"
      /\ RequestsFile(requests[n].url, k)
      /\ mergeStatus[NameOf(k)] = "failed" )
    => /\ requests[n].state \in { "polling", "rejected" }
       /\ requests[n].state = "rejected" =>
            requests[n].error = TimeoutError(NameOf(k))

\* C9: a fetch or a send that requests a configured file whose status is
\* failed is not intercepted, so that its caller gets no synthesized
\* response, whatever the status of the other files.
C9_FailedFileNeverServed ==
  [][ \A n \in 1..Len(requests') : \A k \in FileIdx :
        ( /\ Called(n)
          /\ RequestsFile(requests'[n].url, k)
          /\ mergeStatus[NameOf(k)] = "failed" )
        => /\ ~ Intercepted(requests'[n])
           /\ requests'[n].response = NoResponse
    ]_vars

\* C10: the filesMerged event is dispatched at most once, only when every
\* configured file is ready, and its detail lists name and size of every
\* configured file in configuration order.
C10_EventOnceInConfigOrder ==
  /\ Len(events) <= 1
  /\ events # << >> =>
       /\ \A k \in FileIdx : mergeStatus[NameOf(k)] = "ready"
       /\ events[1] = [ k \in FileIdx |->
                          [name |-> NameOf(k), size |-> SumPartLens(k, 1)] ]

\* the event was dispatched after the second file completed before the first
C10_Witness ==
  /\ Len(events) = 1
  /\ mergeOrder = << 2, 1 >>
  /\ events[1][1].size # events[1][2].size

Settled(k) == mergeStatus[NameOf(k)] \in { "ready", "failed" }

\* C11 (as stated): once every configured file is ready or failed, the
\* filesMerged event has been dispatched once, and its detail lists name and
\* size of the files that were merged, in configuration order.
C11_EventAfterAllSettled ==
  (FileIdx # {} /\ \A k \in FileIdx : Settled(k)) =>
    /\ Len(events) = 1
    /\ LET merged == SelectSeq([ k \in FileIdx |-> k ],
                               LAMBDA k : mergeStatus[NameOf(k)] = "ready")
       IN events[1] = [ i \in 1..Len(merged) |->
                          [name |-> NameOf(merged[i]),
                           size |-> SumPartLens(merged[i], 1)] ]

\* C11 (amended): the filesMerged event has been dispatched, once, exactly
\* when there are configured files and every one of them is ready, listing
\* name and size of every file in configuration order; when a file has
\* failed the event is not dispatched, whatever the other files do.
C11_EventExactlyOnFullSuccess ==
  /\ Len(events) = (IF FileIdx # {} /\ \A k \in FileIdx : mergeStatus[NameOf(k)] = "ready"
                      THEN 1 ELSE 0)
  /\ (\E k \in FileIdx : mergeStatus[NameOf(k)] = "failed") => events = << >>
  /\ events # << >> =>
       events[1] = [ k \in FileIdx |->
                       [name |-> NameOf(k), size |-> SumPartLens(k, 1)] ]

\* every file is settled, one was merged after another had failed, and no
\* event was dispatched
C11_Witness ==
  /\ \A k \in FileIdx : Settled(k)
  /\ \E x, y \in FileIdx : /\ mergeStatus[NameOf(x)] = "failed"
                           /\ mergeStatus[NameOf(y)] = "ready"
                           /\ mergeOrder = << 0 - x, y >>
  /\ events = << >>
  /\ orch = "failed"

InterceptedXhr(req) == req.kind = "xhr" /\ Intercepted(req)

\* the terminal state of an intercepted XHR object
TerminalState(req, store) ==
  /\ req.response.status = 200
  /\ req.response.statusText = "OK"
  /\ req.readyState = 4
  /\ req.response.body # NoBuffer
  /\ req.response.body = getMergedFile(store, req.filename)

NotifiedTypes(req) == [ i \in 1..Len(req.notified) |-> req.notified[i].type ]

HandlerOrder(req) ==
  SelectSeq(<< "progress", "load", "readystatechange" >>,
            LAMBDA t : t \in req.handlers)

C13_StatusMovesOnceFromMerging ==
  [][ loaded =>
        /\ \A k \in FileIdx :
             /\ mergeStatus'[NameOf(k)] # mergeStatus[NameOf(k)] =>
                  /\ mergeStatus[NameOf(k)] = "merging"
                  /\ mergeStatus'[NameOf(k)] \in { "ready", "failed" }
             /\ mergeStatus[NameOf(k)] = "failed" =>
                  /\ task'[k] = "thrown"
                  /\ mergeResult'[k] = mergeResult[k]
        /\ partFetches' = partFetches
    ]_vars

\* a file is failed and the other one became ready afterwards
C13_Witness ==
  \E x, y \in FileIdx :
    /\ mergeStatus[NameOf(x)] = "failed"
    /\ mergeStatus[NameOf(y)] = "ready"
    /\ mergeOrder = << 0 - x, y >>
    /\ task[x] = "thrown"

\* C14: urlsMatch gives the same answer for a pair of URLs in both orders.
C14_UrlsMatchSymmetric ==
  probe.asked => probe.forth = probe.back

\* the matcher said yes for two URLs of which one only ends with the other,
\* their last path segments being different
C14_Witness ==
  /\ probe.asked
  /\ probe.forth /\ probe.back
  /\ Len(normalizeUrl(probe.url1)) < Len(normalizeUrl(probe.url2))
  /\ normalizeUrl(probe.url1) # << >>
  /\ SplitPop(normalizeUrl(probe.url1), "/") # SplitPop(normalizeUrl(probe.url2), "/")

RejectedFetchOf(k) ==
  \E i \in 1..config.files[k].parts : responses[<< k, i >>] = RejectedFetch

FailedReadOf(k) ==
  \E i \in 1..config.files[k].parts : buffers[<< k, i >>] = FailedRead

AllOk(k) ==
  \A i \in 1..config.files[k].parts :
    responses[<< k, i >>].st = "response" /\ responses[<< k, i >>].ok

\* the error names part i of file k and the status of its response
NamesPart(err, k, i) ==
  /\ err.kind = "error"
  /\ err.what = "Failed to load"
  /\ err.part = PartPath(FullPath(NameOf(k)), i)
  /\ err.status = responses[<< k, i >>].status

\* C15 (as stated): a merge that has finished has returned a buffer if and
\* only if every part response was successful; with an unsuccessful part
\* response it returns no buffer and its error names a part that was not
\* successful and the status of that part's response.
C15_BufferIffAllResponsesOk ==
  \A k \in FileIdx :
    /\ Unsuccessful(k) => mergeResult[k].kind # "buffer"
    /\ mergeResult[k].kind # "none" =>
         /\ mergeResult[k].kind = "buffer" <=> AllOk(k)
         /\ Unsuccessful(k) =>
              \E i \in 1..config.files[k].parts :
                /\ responses[<< k, i >>].st = "response"
                /\ ~ responses[<< k, i >>].ok
                /\ NamesPart(mergeResult[k], k, i)

\* C15 (amended): mergeSplitFiles has returned a buffer if and only if every
\* part response was successful and every body was read.  When all parts
\* are answered and one is unsuccessful, it has failed with the error that
\* names the first unsuccessful part, by index, and the status of that
\* part's response.  When a part fetch or a body read is rejected, it has
\* failed with that rejection, which names no part and no status.
C15_BufferIffAllOkAndRead ==
  \A k \in FileIdx :
    /\ mergeResult[k].kind = "buffer" <=> (AllOk(k) /\ AllRead(k))
    /\ Unsuccessful(k) => mergeResult[k].kind # "buffer"
    /\ (AllAnswered(k) /\ ~ RejectedFetchOf(k) /\ Unsuccessful(k)) =>
         \E i \in 1..config.files[k].parts :
           /\ ~ responses[<< k, i >>].ok
           /\ \A j \in 1..(i - 1) : responses[<< k, j >>].ok
           /\ NamesPart(mergeResult[k], k, i)
    /\ RejectedFetchOf(k) => mergeResult[k] = NetworkError
    /\ FailedReadOf(k) => mergeResult[k] = ReadError

\* both parts of a file came back unsuccessful, with different statuses,
\* and the error names the first
C15_Witness ==
  \E k \in FileIdx :
    /\ config.files[k].parts = 2
    /\ Unsuccessful(k) /\ AllAnswered(k)
    /\ ~ responses[<< k, 1 >>].ok /\ ~ responses[<< k, 2 >>].ok
    /\ responses[<< k, 1 >>].status # responses[<< k, 2 >>].status
    /\ NamesPart(mergeResult[k], k, 1)

\* how often the original fetch was called with this path
TimesFetched(log, path) == Cardinality({ n \in 1..Len(log) : log[n] = path })

\* C16: the script starts one merge for every configured file; the original
\* fetch is called once for every part path <fullPath>.part<i>, i from 1 to
\* parts, and for nothing else; no later step, the failure of a merge
\* included, calls it again; and the step that issues the part fetches
\* makes no request through the interceptors.
C16_EachPartFetchedOnce ==
  [][ /\ (~ loaded /\ loaded') =>
           /\ \A p \in Parts :
                TimesFetched(partFetches',
                             PartPath(FullPath(NameOf(p[1])), p[2])) = 1
           /\ Len(partFetches') = Cardinality(Parts)
           /\ \A k \in FileIdx : task'[k] = "responses"
           /\ requests' = requests
      /\ loaded =>
           /\ partFetches' = partFetches
           /\ \A k \in FileIdx : task[k] = "thrown" => task'[k] = "thrown"
    ]_vars

\* a two-part file has failed, the other file has settled after it, and the
\* log of part fetches still has every part once
C16_Witness ==
  \E x, y \in FileIdx :
    /\ config.files[x].parts = 2
    /\ task[x] = "thrown"
    /\ mergeOrder = << 0 - x, y >>
    /\ Len(partFetches) = Cardinality(Parts)
    /\ \A p \in Parts :
         TimesFetched(partFetches, PartPath(FullPath(NameOf(p[1])), p[2])) = 1

LoadNotified(req) ==
  \E i \in 1..Len(req.notified) : req.notified[i].type = "load"

\* C18: a file that is ready has a buffer in the Buffer Store and no entry
\* of the store is ever removed, so that an interceptor that has chosen a
\* file finds a buffer at its first lookup: no intercepted XHR waits for a
\* second lookup, no intercepted fetch polls twice or is rejected with the
\* timeout, and every intercepted XHR with a load handler gets its load
\* notification in the end.
C18_InterceptFindsBufferAtOnce ==
  /\ [](/\ \A k \in FileIdx :
             mergeStatus[NameOf(k)] = "ready" =>
               getMergedFile(mergedFiles, NameOf(k)) # NoBuffer
        /\ \A n \in 1..Len(requests) :
             Intercepted(requests[n]) =>
               /\ getMergedFile(mergedFiles, requests[n].filename) # NoBuffer
               /\ requests[n].state \in { "polling", "resolved",
                                          "synthesized", "notified" }
               /\ requests[n].error = NoError
               /\ requests[n].state = "polling" => requests[n].elapsed = 0
               /\ requests[n].state = "resolved" =>
                    requests[n].elapsed \in { PollInterval, maxWait + PollInterval })
  /\ [][ \A n \in 1..Len(mergedFiles) :
           HasKey(mergedFiles', mergedFiles[n].key) ]_vars
  /\ \A n \in 1..MaxRequests :
       ( /\ n <= Len(requests)
         /\ InterceptedXhr(requests[n])
         /\ "load" \in requests[n].handlers )
       ~> ( /\ n <= Len(requests)
            /\ requests[n].state = "notified"
            /\ LoadNotified(requests[n]) )

\* an XHR with a load handler was intercepted for a file whose buffer is
\* not empty, at its first lookup, and has had its load notification
C18_Witness ==
  \E n \in 1..Len(requests) :
    /\ InterceptedXhr(requests[n])
    /\ requests[n].state = "notified"
    /\ LoadNotified(requests[n])
    /\ requests[n].response.body.bytes # << >>

\* C19: the decision is taken by the fetch call or by the send call, not by
\* open, from the status at that step; a fetch or a send that requests a
\* configured file while its status is merging goes to the original
\* primitive, and a delegated request never gets a synthesized response.
C19_MergingRequestIsDelegated ==
  [][ \A n \in 1..Len(requests') :
        /\ requests'[n].state = "opened" => ~ Intercepted(requests'[n])
        /\ \A k \in FileIdx :
             ( /\ Called(n)
               /\ RequestsFile(requests'[n].url, k)
               /\ mergeStatus[NameOf(k)] = "merging" )
             => /\ requests'[n].state = "delegated"
                /\ ~ Intercepted(requests'[n])
        /\ (n <= Len(requests) /\ requests[n].state = "delegated") =>
             /\ requests'[n] = requests[n]
             /\ requests[n].response = NoResponse
    ]_vars

\* C20: from the step the script has run, every configured file has a
\* status, which is merging until its merge finishes; when every part fetch
\* and every body read settles in the end, every file becomes ready or
\* failed, and does so as soon as its own parts have settled, whatever the
\* parts of the other files do.
C20_EveryFileSettles ==
  /\ [][ (~ loaded /\ loaded') =>
           \A k \in FileIdx : mergeStatus'[NameOf(k)] = "merging" ]_vars
  /\ [](loaded =>
          \A k \in FileIdx :
            /\ mergeStatus[NameOf(k)] \in { "merging", "ready", "failed" }
            /\ (RejectedFetchOf(k) \/ FailedReadOf(k)
                  \/ (AllAnswered(k) /\ (Unsuccessful(k) \/ AllRead(k))))
                 => Settled(k))
  /\ \A k \in 1..MaxFiles :
       (loaded /\ k \in FileIdx) ~> (k \in FileIdx /\ Settled(k))

\* a file has settled while no part of the other file has been answered
C20_Witness ==
  \E x, y \in FileIdx :
    /\ Settled(x)
    /\ mergeStatus[NameOf(y)] = "merging"
    /\ \A i \in 1..config.files[y].parts : responses[<< y, i >>].st = "pending"

====
